---- MODULE Spec2Model ----
(***************************************************************************)
(* Model of mcdm/ahp.py: the helpers _check_objetivo, _normalizar_decisao, *)
(* _agregacao and _resultado, and the classes AHPSaaty and AHPGaussiano.   *)
(*                                                                         *)
(* Numbers.  A float is modelled as an exact rational <<n, d>> in lowest   *)
(* terms with d > 0; the non-finite floats are NaN == <<0,0>> and          *)
(* +-Inf == <<+-1,0>>.  Arithmetic is exact, so "x = 1" stands for the     *)
(* float statement "x = 1 up to rounding".  The one irrational step, the   *)
(* square root inside Series.std(), is rounded down to 1/SqrtScale.        *)
(*                                                                         *)
(* Tables.  A DataFrame is [index, columns, val] with val[c][r] the cell   *)
(* of column position c and row position r; a Series is [index, val].      *)
(* Labels are strings, so peso[indice] with an integer indice is the       *)
(* positional lookup pandas falls back to for a non-integer index.         *)
(***************************************************************************)
EXTENDS Integers, Sequences, FiniteSets, TLC

VARIABLES
    fase,      \* "inicio", "construido" (constructor returned), "falhou", "chamado"
    self,      \* the instance: its class, its attributes, and which of them were assigned
    erro,      \* the exception the last constructor or method call raised (SemErro if none)
    chamada    \* the last public method call: its name, its argument and what it returned

vars == <<fase, self, erro, chamada>>

----------------------------------------------------------------------------
(* Bounds of the model *)

\* largest cell value of a Decision Table given to AHPGaussiano
MaxValor == 3
\* largest cell value of a Decision Table given to an AHPSaaty method
MaxValorSaaty == 2
\* largest criterion count of the perfectly consistent judgment matrices
MaxCriterios == 16
\* resolution of the rounded square root: Sqrt(q) is a multiple of 1/SqrtScale
SqrtScale == 100

----------------------------------------------------------------------------
(* Floats as exact rationals *)

NaN == <<0, 0>>
Zero == <<0, 1>>
One == <<1, 1>>

Abs(i) == IF i < 0 THEN -i ELSE i

Sgn(i) == IF i < 0 THEN -1 ELSE IF i = 0 THEN 0 ELSE 1

RECURSIVE GCD(_, _)
GCD(a, b) == IF b = 0 THEN a ELSE GCD(b, a % b)

\* the float n/d for integers n and d # 0, in lowest terms
Frac(n, d) ==
    LET g == GCD(Abs(n), Abs(d))
    IN <<Sgn(d) * (n \div g), Abs(d) \div g>>

Num(i) == <<i, 1>>

IsNaN(a) == a = NaN

IsFinite(a) == a[2] # 0

RAdd(a, b) ==
    IF IsNaN(a) \/ IsNaN(b) THEN NaN
    ELSE IF ~IsFinite(a) /\ ~IsFinite(b) THEN (IF a = b THEN a ELSE NaN)
    ELSE IF ~IsFinite(a) THEN a
    ELSE IF ~IsFinite(b) THEN b
    ELSE LET g == GCD(a[2], b[2])
             l == (a[2] \div g) * b[2]
         IN Frac(a[1] * (l \div a[2]) + b[1] * (l \div b[2]), l)

RNeg(a) == <<-a[1], a[2]>>

RSub(a, b) == RAdd(a, RNeg(b))

RMul(a, b) ==
    IF IsNaN(a) \/ IsNaN(b) THEN NaN
    ELSE IF ~IsFinite(a) \/ ~IsFinite(b)
         THEN <<Sgn(a[1]) * Sgn(b[1]), 0>>        \* 0 * Inf is NaN
    ELSE LET g1 == GCD(Abs(a[1]), b[2])
             g2 == GCD(Abs(b[1]), a[2])
         IN Frac((a[1] \div g1) * (b[1] \div g2), (a[2] \div g2) * (b[2] \div g1))

\* float division as numpy and pandas do it: x/0 is +-Inf, 0/0 is NaN, nothing is raised
RDiv(a, b) ==
    IF IsNaN(a) \/ IsNaN(b) THEN NaN
    ELSE IF ~IsFinite(b) THEN (IF IsFinite(a) THEN Zero ELSE NaN)
    ELSE IF b[1] = 0 THEN <<Sgn(a[1]), 0>>
    ELSE IF ~IsFinite(a) THEN <<Sgn(a[1]) * Sgn(b[1]), 0>>
    ELSE RMul(a, <<Sgn(b[1]) * b[2], Abs(b[1])>>)

\* a < b on floats; every comparison with NaN is false
RLess(a, b) ==
    /\ ~IsNaN(a)
    /\ ~IsNaN(b)
    /\ a # b
    /\ IF IsFinite(a) /\ IsFinite(b) THEN RSub(a, b)[1] < 0
       ELSE IF ~IsFinite(a) THEN a[1] < 0
       ELSE b[1] > 0

RLeq(a, b) == (a = b /\ ~IsNaN(a)) \/ RLess(a, b)

RECURSIVE SumSkipNa(_)
\* Series.sum() / DataFrame.sum(): NaN cells are skipped, the empty sum is 0
SumSkipNa(s) ==
    IF s = <<>> THEN Zero
    ELSE IF IsNaN(Head(s)) THEN SumSkipNa(Tail(s))
    ELSE RAdd(Head(s), SumSkipNa(Tail(s)))

RECURSIVE ISqrt(_, _)
\* the largest r >= lo with r * r <= the argument, searched upwards
ISqrt(m, r) == IF (r + 1) * (r + 1) > m THEN r ELSE ISqrt(m, r + 1)

\* the square root of a finite q >= 0, rounded down to a multiple of 1/SqrtScale
Sqrt(q) ==
    IF ~IsFinite(q) THEN q
    ELSE Frac(ISqrt((q[1] * SqrtScale * SqrtScale) \div q[2], 0), SqrtScale)

----------------------------------------------------------------------------
(* Python values and exceptions *)

\* the arguments the helpers receive: the str 'max', a list, a tuple, a Series
Str(s) == [tipo |-> "str", itens |-> <<s>>, val |-> <<>>]
List(l) == [tipo |-> "list", itens |-> l, val |-> <<>>]
Tuple(l) == [tipo |-> "tuple", itens |-> l, val |-> <<>>]
Series(idx, v) == [tipo |-> "serie", itens |-> idx, val |-> v]

SemErro == [tipo |-> "none", motivo |-> "", par |-> <<>>]
Raise(t, m, p) == [tipo |-> t, motivo |-> m, par |-> p]

\* the value of an attribute that was never assigned
Unset == <<>>

Range(s) == {s[i] : i \in 1..Len(s)}

Pos(s, x) == CHOOSE i \in 1..Len(s) : s[i] = x

Shape0(df) == Len(df.index)
Shape1(df) == Len(df.columns)

\* row r of a table, across its columns
Linha(df, r) == [c \in 1..Shape1(df) |-> df.val[c][r]]

----------------------------------------------------------------------------
(* _check_objetivo *)

\* the first item of the list that is no column, 0 if every item is one
PrimeiroInvalido(columns, itens) ==
    IF \A i \in 1..Len(itens) : itens[i] \in Range(columns) THEN 0
    ELSE CHOOSE i \in 1..Len(itens) :
            /\ itens[i] \notin Range(columns)
            /\ \A j \in 1..(i - 1) : itens[j] \in Range(columns)

\* [erro, ret]: ret[c] is 'max' or 'min' for the column at position c
check_objetivo(criterios, objetivo) ==
    IF objetivo = Str("max")
    THEN [erro |-> SemErro, ret |-> [c \in 1..Shape1(criterios) |-> "max"]]
    ELSE IF objetivo.tipo = "serie"
    THEN [erro |-> Raise("ValueError", "truth value of a Series is ambiguous", <<>>),
          ret |-> Unset]
    ELSE IF objetivo.tipo # "list"
    THEN [erro |-> Raise("TypeError", "objetivo deve ser uma lista", <<>>), ret |-> Unset]
    ELSE LET k == PrimeiroInvalido(criterios.columns, objetivo.itens)
         IN IF k # 0
            THEN [erro |-> Raise("KeyError", "nao e um criterio valido", <<objetivo.itens[k]>>),
                  ret |-> Unset]
            ELSE [erro |-> SemErro,
                  ret |-> [c \in 1..Shape1(criterios) |->
                             IF criterios.columns[c] \in Range(objetivo.itens)
                             THEN "min" ELSE "max"]]

----------------------------------------------------------------------------
(* _normalizar_decisao *)

\* lines 43-45: the column divided by its sum
normalizar_max(col) ==
    LET soma == SumSkipNa(col)
    IN [r \in 1..Len(col) |-> RDiv(col[r], soma)]

\* line 48: the reciprocal of every cell (the lambda runs on Python scalars: 1/0 raises)
reciproco(col) == [r \in 1..Len(col) |-> RDiv(One, col[r])]

\* normalizar_min with the sum taken before the reciprocals instead of after
normalizar_min_soma_antes(col) ==
    LET inv == reciproco(col)
        soma == SumSkipNa(col)
    IN [r \in 1..Len(col) |-> RDiv(inv[r], soma)]

\* lines 48-51: the reciprocals divided by the sum of the reciprocals
normalizar_min(col) ==
    LET inv == reciproco(col)
        soma == SumSkipNa(inv)
    IN [r \in 1..Len(col) |-> RDiv(inv[r], soma)]

TemZero(col) == \E r \in 1..Len(col) : col[r] = Zero

\* [erro, ret]: the Local Preference Table
normalizar_decisao(matriz_decisao, objetivo) ==
    LET o == check_objetivo(matriz_decisao, objetivo)
    IN IF o.erro # SemErro THEN [erro |-> o.erro, ret |-> Unset]
       ELSE IF \E c \in 1..Shape1(matriz_decisao) :
                   o.ret[c] = "min" /\ TemZero(matriz_decisao.val[c])
       THEN [erro |-> Raise("ZeroDivisionError", "division by zero", <<>>), ret |-> Unset]
       ELSE [erro |-> SemErro,
             ret |-> [matriz_decisao EXCEPT !.val =
                        [c \in 1..Shape1(matriz_decisao) |->
                           IF o.ret[c] = "max"
                           THEN normalizar_max(matriz_decisao.val[c])
                           ELSE normalizar_min(matriz_decisao.val[c])]]]

----------------------------------------------------------------------------
(* _agregacao *)

\* line 69, peso[indice] for the column at position c: [erro, ret]
peso_item(peso, c) ==
    IF c > Len(IF peso.tipo = "serie" THEN peso.val ELSE
               IF peso.tipo = "str" THEN peso.itens[1] ELSE peso.itens)
    THEN [erro |-> Raise("IndexError", "index out of range", <<>>), ret |-> Unset]
    ELSE IF peso.tipo # "serie"
    THEN [erro |-> Raise("TypeError", "can't multiply a column by a str", <<>>), ret |-> Unset]
    ELSE [erro |-> SemErro, ret |-> peso.val[c]]

\* [erro, ret]: the Aggregation Table
agregacao(matriz_decisao, peso, objetivo) ==
    LET m == normalizar_decisao(matriz_decisao, objetivo)
    IN IF m.erro # SemErro THEN m
       ELSE IF \E c \in 1..Shape1(m.ret) : peso_item(peso, c).erro # SemErro
       THEN [erro |-> peso_item(peso, CHOOSE c \in 1..Shape1(m.ret) :
                                   /\ peso_item(peso, c).erro # SemErro
                                   /\ \A d \in 1..(c - 1) : peso_item(peso, d).erro = SemErro).erro,
             ret |-> Unset]
       ELSE [erro |-> SemErro,
             ret |-> [m.ret EXCEPT !.val =
                        [c \in 1..Shape1(m.ret) |->
                           [r \in 1..Shape0(m.ret) |->
                              RMul(m.ret.val[c][r], peso_item(peso, c).ret)]]]]

----------------------------------------------------------------------------
(* _resultado *)

Perms(n) == {p \in [1..n -> 1..n] : \A i, j \in 1..n : p[i] = p[j] => i = j}

\* sort_values without ascending=False: the smallest Score first
sort_values_ascendente(pontuacao) ==
    {p \in Perms(Len(pontuacao)) :
        \A i \in 1..Len(pontuacao) : \A j \in (i + 1)..Len(pontuacao) :
            ~RLess(pontuacao[p[j]], pontuacao[p[i]])}

\* line 87, sort_values('Pontuacao', ascending=False): the row orders the sort may
\* produce.  The default kind is quicksort, which fixes no order among equal keys.
sort_values(pontuacao) ==
    {p \in Perms(Len(pontuacao)) :
        \A i \in 1..Len(pontuacao) : \A j \in (i + 1)..Len(pontuacao) :
            ~RLess(pontuacao[p[i]], pontuacao[p[j]])}

\* line 85: the row sums of the Aggregation Table
pontuacao(df) == [r \in 1..Shape0(df) |-> SumSkipNa(Linha(df, r))]

\* tabela_resultado with Ranking = range(len(df)): the ranks start at 0
tabela_resultado_desde_zero(df, p) ==
    [k \in 1..Shape0(df) |->
        [alternativa |-> df.index[p[k]],
         Ranking |-> k - 1,
         Pontuacao |-> pontuacao(df)[p[k]]]]

\* lines 87-89 for one row order p: the rows alternativa, Ranking, Pontuacao
tabela_resultado(df, p) ==
    [k \in 1..Shape0(df) |->
        [alternativa |-> df.index[p[k]],
         Ranking |-> k,
         Pontuacao |-> pontuacao(df)[p[k]]]]

\* resultado handing its arguments to _agregacao in the order it received them
resultado_sem_troca(matriz_decisao, peso, objetivo) ==
    LET a == agregacao(matriz_decisao, peso, objetivo)
    IN IF a.erro # SemErro THEN [erro |-> a.erro, rets |-> {Unset}]
       ELSE [erro |-> SemErro,
             rets |-> {tabela_resultado(a.ret, p) : p \in sort_values(pontuacao(a.ret))}]

\* [erro, rets]: rets is the set of Result Tables the call may return
resultado(matriz_decisao, peso, objetivo) ==
    LET a == agregacao(matriz_decisao, objetivo, peso)
    IN IF a.erro # SemErro THEN [erro |-> a.erro, rets |-> {Unset}]
       ELSE [erro |-> SemErro,
             rets |-> {tabela_resultado(a.ret, p) : p \in sort_values(pontuacao(a.ret))}]

----------------------------------------------------------------------------
(* Inputs *)

Alternativas == <<"A1", "A2", "A3">>
CriteriosDecisao == <<"C1", "C2">>

Prefixo(s, n) == SubSeq(s, 1, n)

\* the tables with rows A1..An, columns `columns` and integer cells in lo..hi
Tabelas(n, columns, lo, hi) ==
    {[index |-> Prefixo(Alternativas, n),
      columns |-> columns,
      val |-> [c \in 1..Len(columns) |-> [r \in 1..n |-> Num(v[c][r])]]] :
        v \in [1..Len(columns) -> [1..n -> lo..hi]]}

\* the Decision Tables given to AHPGaussiano: the tables of positive cells, and
\* the tables of up to two alternatives in which a cell may be 0
TabelasGauss ==
    UNION {Tabelas(n, Prefixo(CriteriosDecisao, k), 1, MaxValor) :
             n \in 1..Len(Alternativas), k \in 1..Len(CriteriosDecisao)}
      \cup (UNION {Tabelas(n, Prefixo(CriteriosDecisao, k), 0, MaxValor) :
                      n \in 1..(Len(Alternativas) - 1), k \in 1..Len(CriteriosDecisao)})

\* the objetivo arguments: the default, lists of criteria, an unknown label, a non-list
Objetivos(criterios) ==
    {Str("max"), Tuple(<<criterios[1]>>), List(<<"X">>)}
        \cup {List(<<c>>) : c \in Range(criterios)}
        \cup {List(<<c, d>>) : <<c, d>> \in {x \in Range(criterios) \X Range(criterios) : x[1] # x[2]}}

----------------------------------------------------------------------------
(* AHPGaussiano *)

SemChamada == [op |-> "none", arg |-> Unset, ret |-> Unset]

GaussVazio ==
    [classe |-> "AHPGaussiano", matriz_decisao |-> Unset, objetivo |-> Unset,
     otimizacao |-> Unset, preferencia_local |-> Unset, media |-> Unset,
     desvio_padrao |-> Unset, fator_gaussiano |-> Unset, peso |-> Unset,
     atribuidos |-> {}]

RECURSIVE SomaQuadrados(_, _)
SomaQuadrados(s, m) ==
    IF s = <<>> THEN Zero
    ELSE RAdd(RMul(RSub(Head(s), m), RSub(Head(s), m)), SomaQuadrados(Tail(s), m))

\* line 257, Series.std(): the sample standard deviation (ddof = 1) of the cells
\* that are not NaN; NaN when fewer than two are left
std(col) ==
    LET x == SelectSeq(col, LAMBDA v : ~IsNaN(v))
    IN IF Len(x) <= 1 THEN NaN
       ELSE Sqrt(RDiv(SomaQuadrados(x, RDiv(SumSkipNa(x), Num(Len(x)))), Num(Len(x) - 1)))

\* line 254
gauss_media(preferencia_local, n) ==
    [c \in 1..Shape1(preferencia_local) |-> RDiv(SumSkipNa(preferencia_local.val[c]), Num(n))]

\* line 257
gauss_desvio_padrao(preferencia_local) ==
    [c \in 1..Shape1(preferencia_local) |-> std(preferencia_local.val[c])]

\* line 260
fator_gaussiano(desvio_padrao, media) ==
    [c \in 1..Len(media) |-> RDiv(desvio_padrao[c], media[c])]

\* lines 262-265
fator_gaussiano_normalizado(fator) ==
    LET soma == SumSkipNa(fator)
    IN [c \in 1..Len(fator) |-> RDiv(fator[c], soma)]

\* AHPGaussiano.__init__: [erro, self], self holding what was assigned before the raise
AHPGaussiano_init(matriz_decisao, objetivo) ==
    LET s0 == [GaussVazio EXCEPT !.matriz_decisao = matriz_decisao,
                                 !.objetivo = objetivo,
                                 !.atribuidos = {"_matriz_decisao", "_objetivo"}]
        o == check_objetivo(matriz_decisao, objetivo)
        pl == normalizar_decisao(matriz_decisao, objetivo)
        media == gauss_media(pl.ret, Shape0(matriz_decisao))
        desvio == gauss_desvio_padrao(pl.ret)
        fator == fator_gaussiano(desvio, media)
    IN IF o.erro # SemErro THEN [erro |-> o.erro, self |-> s0]
       ELSE IF pl.erro # SemErro
       THEN [erro |-> pl.erro,
             self |-> [s0 EXCEPT !.otimizacao = o.ret,
                                 !.atribuidos = @ \cup {"otimizacao"}]]
       ELSE [erro |-> SemErro,
             self |-> [s0 EXCEPT !.otimizacao = o.ret,
                                 !.preferencia_local = pl.ret,
                                 !.media = media,
                                 !.desvio_padrao = desvio,
                                 !.fator_gaussiano = fator,
                                 !.peso = fator_gaussiano_normalizado(fator),
                                 !.atribuidos = @ \cup {"otimizacao", "preferencia_local",
                                    "_media", "_desvio_padrao", "fator_gaussiano", "peso"}]]

\* AHPGaussiano.preferencia_global: [erro, rets]
AHPGaussiano_preferencia_global(obj) ==
    resultado(obj.matriz_decisao, obj.objetivo, Series(obj.matriz_decisao.columns, obj.peso))

InitGauss ==
    /\ fase = "inicio"
    /\ self = GaussVazio
    /\ erro = SemErro
    /\ chamada = SemChamada

GaussInit ==
    /\ fase = "inicio"
    /\ \E md \in TabelasGauss : \E o \in Objetivos(md.columns) :
          LET r == AHPGaussiano_init(md, o)
          IN /\ self' = r.self
             /\ erro' = r.erro
             /\ fase' = IF r.erro = SemErro THEN "construido" ELSE "falhou"
    /\ UNCHANGED chamada

GaussPreferenciaGlobal ==
    /\ fase = "construido"
    /\ self.classe = "AHPGaussiano"
    /\ LET r == AHPGaussiano_preferencia_global(self)
       IN /\ erro' = r.erro
          /\ \E t \in r.rets :
                chamada' = [op |-> "preferencia_global", arg |-> Unset, ret |-> t]
    /\ fase' = "chamado"
    /\ UNCHANGED self

NextGauss == GaussInit \/ GaussPreferenciaGlobal

SpecGauss == InitGauss /\ [][NextGauss]_vars

----------------------------------------------------------------------------
(* AHPSaaty *)

\* lines 123-126, _indice_consistencia: the random index RI of n = 1..15 criteria
indice_consistencia ==
    <<Zero, Zero, Frac(58, 100), Frac(90, 100), Frac(112, 100), Frac(124, 100),
      Frac(132, 100), Frac(141, 100), Frac(145, 100), Frac(149, 100), Frac(151, 100),
      Frac(148, 100), Frac(156, 100), Frac(157, 100), Frac(159, 100)>>

\* the bounds of Saaty's fundamental scale, line 150
EscalaMax == Num(9)
EscalaMin == Frac(1, 9)

SaatyVazio ==
    [classe |-> "AHPSaaty", matriz_julgamentos |-> Unset, objetivo |-> Unset,
     otimizacao |-> Unset, julgamentos_normalizados |-> Unset, n |-> 0, peso |-> Unset,
     matriz_consitencia |-> Unset, maxlambda |-> Unset, ri |-> Unset, ci |-> Unset,
     cr |-> Unset, atribuidos |-> {}]

\* DataFrame.loc[linha, coluna]
loc(df, linha, coluna) == df.val[Pos(df.columns, coluna)][Pos(df.index, linha)]

Celulas(df) == {df.val[c][r] : c \in 1..Shape1(df), r \in 1..Shape0(df)}

\* lines 156-159: the pairs (linha, coluna), in the order the loops visit them
ParesEmOrdem(df) ==
    [k \in 1..(Shape0(df) * Shape1(df)) |->
        <<df.index[((k - 1) \div Shape1(df)) + 1], df.columns[((k - 1) % Shape1(df)) + 1]>>]

ViolaReciproca(df, par) == loc(df, par[1], par[2]) # RDiv(One, loc(df, par[2], par[1]))

\* _check_matriz_julgamentos without the loop over the pairs
check_matriz_julgamentos_sem_reciproca(mj) ==
    IF \E x \in Celulas(mj) : RLess(EscalaMax, x) \/ RLess(x, EscalaMin)
    THEN Raise("InterruptedError", "matriz de julgamentos viola escala fundamental de Saaty", <<>>)
    ELSE IF Shape0(mj) # Shape1(mj)
    THEN Raise("InterruptedError", "matriz de julgamento deve ser uma matriz quadrada", <<>>)
    ELSE IF mj.columns # mj.index
    THEN Raise("InterruptedError",
               "coluna e indices da matriz de julgamentos devem estar ordenados igualmente", <<>>)
    ELSE SemErro

\* AHPSaaty._check_matriz_julgamentos: the exception raised, SemErro if none
check_matriz_julgamentos(mj) ==
    IF \E x \in Celulas(mj) : RLess(EscalaMax, x) \/ RLess(x, EscalaMin)
    THEN Raise("InterruptedError", "matriz de julgamentos viola escala fundamental de Saaty", <<>>)
    ELSE IF Shape0(mj) # Shape1(mj)
    THEN Raise("InterruptedError", "matriz de julgamento deve ser uma matriz quadrada", <<>>)
    ELSE IF mj.columns # mj.index
    THEN Raise("InterruptedError",
               "coluna e indices da matriz de julgamentos devem estar ordenados igualmente", <<>>)
    ELSE LET pares == ParesEmOrdem(mj)
         IN IF \E k \in 1..Len(pares) : ViolaReciproca(mj, pares[k])
            THEN Raise("InterruptedError", "erro na reciproca da matriz de julgamento",
                       pares[CHOOSE k \in 1..Len(pares) :
                               /\ ViolaReciproca(mj, pares[k])
                               /\ \A j \in 1..(k - 1) : ~ViolaReciproca(mj, pares[j])])
            ELSE SemErro

\* AHPSaaty._normalizar_julgamentos: every column divided by its sum
normalizar_julgamentos(mj) ==
    [mj EXCEPT !.val = [c \in 1..Shape1(mj) |->
                          LET soma == SumSkipNa(mj.val[c])
                          IN [r \in 1..Shape0(mj) |-> RDiv(mj.val[c][r], soma)]]]

\* AHPSaaty._vetor_prioridade: the row sums of the normalized matrix over n
vetor_prioridade(julgamentos_normalizados, n) ==
    [r \in 1..Shape0(julgamentos_normalizados) |->
        RDiv(SumSkipNa(Linha(julgamentos_normalizados, r)), Num(n))]

\* AHPSaaty._analise_consistencia: column c of the judgment matrix times peso[c]
analise_consistencia(mj, peso) ==
    [mj EXCEPT !.val = [c \in 1..Shape1(mj) |->
                          [r \in 1..Shape0(mj) |-> RMul(mj.val[c][r], peso[c])]]]

\* AHPSaaty._lambda_max
lambda_max(matriz_consitencia, peso, n) ==
    RDiv(SumSkipNa([r \in 1..Shape0(matriz_consitencia) |->
                      RDiv(SumSkipNa(Linha(matriz_consitencia, r)), peso[r])]),
         Num(n))

\* AHPSaaty.__init__: [erro, self], self holding what was assigned before the raise
AHPSaaty_init(matriz_julgamentos, objetivo) ==
    LET s0 == [SaatyVazio EXCEPT !.matriz_julgamentos = matriz_julgamentos,
                                 !.objetivo = objetivo,
                                 !.atribuidos = {"_matriz_julgamentos", "_objetivo"}]
        e == check_matriz_julgamentos(matriz_julgamentos)
        o == check_objetivo(matriz_julgamentos, objetivo)
        jn == normalizar_julgamentos(matriz_julgamentos)
        n == Shape1(matriz_julgamentos)
        peso == vetor_prioridade(jn, n)
        mc == analise_consistencia(matriz_julgamentos, peso)
        ml == lambda_max(mc, peso, n)
        s6 == [s0 EXCEPT !.otimizacao = o.ret,
                         !.julgamentos_normalizados = jn,
                         !.n = n,
                         !.peso = peso,
                         !.matriz_consitencia = mc,
                         !.maxlambda = ml,
                         !.atribuidos = @ \cup {"otimizacao", "_julgamentos_normalizados",
                            "_n", "peso", "_matriz_consitencia", "_maxlambda"}]
        ri == indice_consistencia[n]
        ci == RDiv(RSub(ml, Num(n)), Num(n - 1))
    IN IF e # SemErro THEN [erro |-> e, self |-> s0]
       ELSE IF o.erro # SemErro THEN [erro |-> o.erro, self |-> s0]
       ELSE IF n \notin DOMAIN indice_consistencia
       THEN [erro |-> Raise("KeyError", "_indice_consistencia", <<n>>), self |-> s6]
       ELSE [erro |-> SemErro,
             self |-> [s6 EXCEPT !.ri = ri,
                                 !.ci = ci,
                                 !.cr = RDiv(ci, ri),
                                 !.atribuidos = @ \cup {"_ri", "_ci", "cr"}]]

\* _check_matriz_decisao comparing the number of columns but not their labels
check_matriz_decisao_sem_rotulos(obj, matriz_decisao) ==
    IF Shape1(matriz_decisao) > Len(indice_consistencia)
    THEN Raise("InterruptedError",
               "matriz de decisao deve conter no maximo 15 criterios de avaliacao", <<>>)
    ELSE IF Shape1(obj.matriz_julgamentos) # Shape1(matriz_decisao)
    THEN Raise("ValueError",
               "numero de colunas das matrizes de julgamentos e de decisao devem ser iguais", <<>>)
    ELSE SemErro

\* AHPSaaty._check_matriz_decisao: the exception raised, SemErro if none
check_matriz_decisao(obj, matriz_decisao) ==
    IF Shape1(matriz_decisao) > Len(indice_consistencia)
    THEN Raise("InterruptedError",
               "matriz de decisao deve conter no maximo 15 criterios de avaliacao", <<>>)
    ELSE IF Shape1(obj.matriz_julgamentos) # Shape1(matriz_decisao)
    THEN Raise("ValueError",
               "numero de colunas das matrizes de julgamentos e de decisao devem ser iguais", <<>>)
    ELSE IF obj.matriz_julgamentos.columns # matriz_decisao.columns
    THEN Raise("InterruptedError",
               "colunas da matriz de decisao e matriz de julgamentos devem ser iguais", <<>>)
    ELSE SemErro

\* AHPSaaty.preferencia_local: [erro, ret]
AHPSaaty_preferencia_local(obj, matriz_decisao) ==
    normalizar_decisao(matriz_decisao, obj.objetivo)

\* AHPSaaty.preferencia_global: [erro, rets]
AHPSaaty_preferencia_global(obj, matriz_decisao) ==
    LET e == check_matriz_decisao(obj, matriz_decisao)
    IN IF e # SemErro THEN [erro |-> e, rets |-> {Unset}]
       ELSE resultado(matriz_decisao, obj.objetivo,
                      Series(obj.matriz_julgamentos.index, obj.peso))

----------------------------------------------------------------------------
(* Inputs of AHPSaaty *)

Rotulos ==
    <<"C1", "C2", "C3", "C4", "C5", "C6", "C7", "C8", "C9", "C10", "C11", "C12",
      "C13", "C14", "C15", "C16", "C17", "C18">>

\* the criteria of the judgment matrices that are enumerated entry by entry
CriteriosSaaty == Prefixo(Rotulos, 3)

\* the judgments above the diagonal of those matrices
JulgamentosVals == {Frac(1, 2), One, Num(2)}

\* the values one entry of a matrix is overwritten with: out of scale on either
\* side, and in scale but not the reciprocal of the entry opposite
Perturbacoes == {Num(10), Frac(1, 10), Num(9), Num(3)}

Acima(n) == {x \in (1..n) \X (1..n) : x[1] < x[2]}

\* the reciprocal n x n matrix with u[<<r, c>>] at row r, column c > r
MatrizReciproca(n, u) ==
    [index |-> Prefixo(Rotulos, n),
     columns |-> Prefixo(Rotulos, n),
     val |-> [c \in 1..n |-> [r \in 1..n |->
                IF r = c THEN One
                ELSE IF r < c THEN u[<<r, c>>]
                ELSE RDiv(One, u[<<c, r>>])]]]

\* the perfectly consistent matrix M[i][j] = w[i] / w[j]
MatrizConsistente(w) ==
    [index |-> Prefixo(Rotulos, Len(w)),
     columns |-> Prefixo(Rotulos, Len(w)),
     val |-> [c \in 1..Len(w) |-> [r \in 1..Len(w) |-> Frac(w[r], w[c])]]]

\* w = (1, ..., 1) and w = (2, 1, ..., 1)
PesosConsistentes(n) == {[i \in 1..n |-> IF i <= k THEN 2 ELSE 1] : k \in 0..1}

MatrizesReciprocas ==
    UNION {{MatrizReciproca(n, u) : u \in [Acima(n) -> JulgamentosVals]} :
             n \in 1..Len(CriteriosSaaty)}

MatrizesConsistentes ==
    UNION {{MatrizConsistente(w) : w \in PesosConsistentes(n)} : n \in 1..MaxCriterios}

MatrizesPerturbadas ==
    UNION {{[m EXCEPT !.val[x[1]][x[2]] = v] :
              x \in (1..Shape1(m)) \X (1..Shape0(m)), v \in Perturbacoes} :
             m \in MatrizesReciprocas}

\* the matrix without its last row: not square
SemUltimaLinha(m) ==
    [m EXCEPT !.index = Prefixo(m.index, Shape0(m) - 1),
              !.val = [c \in 1..Shape1(m) |-> Prefixo(m.val[c], Shape0(m) - 1)]]

\* the matrix with the labels of its first two rows exchanged
IndiceTrocado(m) ==
    [m EXCEPT !.index = [i \in 1..Shape0(m) |->
                           IF i = 1 THEN m.index[2] ELSE IF i = 2 THEN m.index[1]
                           ELSE m.index[i]]]

MatrizesSaaty ==
    LET quadradas == MatrizesReciprocas \cup MatrizesPerturbadas
        maiores == {m \in quadradas : Shape1(m) >= 2}
    IN quadradas \cup MatrizesConsistentes
         \cup {SemUltimaLinha(m) : m \in maiores}
         \cup {IndiceTrocado(m) : m \in maiores}

ObjetivosSaaty(columns) ==
    IF Len(columns) = 1 THEN Objetivos(columns)
    ELSE Objetivos(<<columns[1], columns[Len(columns)]>>)

\* the table of ones with one alternative and the given columns
TabelaUnitaria(columns) ==
    [index |-> Prefixo(Alternativas, 1),
     columns |-> columns,
     val |-> [c \in 1..Len(columns) |-> <<One>>]]

\* the Decision Tables whose columns are those of the judgment matrix: two
\* alternatives, cells of 1 but for the first cells of A1 and the first cell of A2
TabelasIguais(columns) ==
    LET n == Len(columns)
        k == IF n <= Len(CriteriosSaaty) THEN n ELSE 1
    IN {[index |-> Prefixo(Alternativas, 2),
         columns |-> columns,
         val |-> [c \in 1..n |->
                    <<IF c <= k THEN Num(v[c]) ELSE One,
                      IF c = 1 THEN Num(v[k + 1]) ELSE One>>]] :
           v \in [1..(k + 1) -> 1..MaxValorSaaty]}

\* the Decision Tables whose columns are not those of the judgment matrix: the
\* first two exchanged, one fewer, one more, and one more than the RI table has
TabelasDiferentes(columns) ==
    LET n == Len(columns)
    IN {TabelaUnitaria(Prefixo(Rotulos, n + 1)),
        TabelaUnitaria(Prefixo(Rotulos, Len(indice_consistencia) + 1))}
         \cup (IF n < 2 THEN {}
               ELSE {TabelaUnitaria(Prefixo(columns, n - 1)),
                     TabelaUnitaria([i \in 1..n |->
                        IF i = 1 THEN columns[2] ELSE IF i = 2 THEN columns[1]
                        ELSE columns[i]])})

TabelasSaaty(columns) ==
    {TabelaUnitaria(columns)} \cup TabelasIguais(columns) \cup TabelasDiferentes(columns)

----------------------------------------------------------------------------
(* The AHPSaaty program: construct an instance, then call one of its methods *)

InitSaaty ==
    /\ fase = "inicio"
    /\ self = SaatyVazio
    /\ erro = SemErro
    /\ chamada = SemChamada

SaatyInit ==
    /\ fase = "inicio"
    /\ \E mj \in MatrizesSaaty : \E o \in ObjetivosSaaty(mj.columns) :
          LET r == AHPSaaty_init(mj, o)
          IN /\ self' = r.self
             /\ erro' = r.erro
             /\ fase' = IF r.erro = SemErro THEN "construido" ELSE "falhou"
    /\ UNCHANGED chamada

SaatyPreferenciaLocal ==
    /\ fase = "construido"
    /\ self.classe = "AHPSaaty"
    /\ \E md \in TabelasSaaty(self.matriz_julgamentos.columns) :
          LET r == AHPSaaty_preferencia_local(self, md)
          IN /\ erro' = r.erro
             /\ chamada' = [op |-> "preferencia_local", arg |-> md, ret |-> r.ret]
    /\ fase' = "chamado"
    /\ UNCHANGED self

SaatyPreferenciaGlobal ==
    /\ fase = "construido"
    /\ self.classe = "AHPSaaty"
    /\ \E md \in TabelasSaaty(self.matriz_julgamentos.columns) :
          LET r == AHPSaaty_preferencia_global(self, md)
          IN /\ erro' = r.erro
             /\ \E t \in r.rets :
                   chamada' = [op |-> "preferencia_global", arg |-> md, ret |-> t]
    /\ fase' = "chamado"
    /\ UNCHANGED self

NextSaaty == SaatyInit \/ SaatyPreferenciaLocal \/ SaatyPreferenciaGlobal

SpecSaaty == InitSaaty /\ [][NextSaaty]_vars

----------------------------------------------------------------------------
(* Properties of AHPGaussiano and of the shared helpers, under SpecGauss *)

RECURSIVE Soma(_)
\* the plain sum of a sequence of floats: NaN and Inf propagate
Soma(s) == IF s = <<>> THEN Zero ELSE RAdd(Head(s), Soma(Tail(s)))

NaoNegativo(x) == IsFinite(x) /\ x[1] >= 0

Positiva(df) == \A x \in Celulas(df) : IsFinite(x) /\ x[1] > 0

Construido == fase \in {"construido", "chamado"}

\* C1: for a Decision Table of positive cells and any objetivo, every column of
\* the Local Preference Table _normalizar_decisao returns (kept by the instance
\* as preferencia_local) sums to 1, be the column maximized or minimized.
C1_ColunasSomamUm ==
    (Construido /\ Positiva(self.matriz_decisao)) =>
        \A c \in 1..Shape1(self.preferencia_local) :
            Soma(self.preferencia_local.val[c]) = One

C1_Witness ==
    /\ fase = "construido"
    /\ self.otimizacao = <<"max", "min">>
    /\ self.matriz_decisao.val = <<<<Num(3), Num(1), Num(2)>>, <<Num(1), Num(2), Num(3)>>>>
    /\ self.preferencia_local.val[2] = <<Frac(6, 11), Frac(3, 11), Frac(2, 11)>>

\* C2: the weights of every successfully constructed AHPGaussiano (Decision
\* Table of positive cells, constant columns and single alternatives included)
\* are non-negative and sum to 1.
C2_PesosGaussSomamUm ==
    (Construido /\ Positiva(self.matriz_decisao)) =>
        /\ \A c \in 1..Len(self.peso) : NaoNegativo(self.peso[c])
        /\ Soma(self.peso) = One

\* C8: constructing AHPGaussiano on a Decision Table with an all-zero criterion
\* column fails: no instance is produced, and no NaN reaches the Local
\* Preference Table, the Gaussian factors or the weights.
C8_ColunaNulaFalha ==
    (fase # "inicio" /\ \E c \in 1..Shape1(self.matriz_decisao) :
                            \A r \in 1..Shape0(self.matriz_decisao) :
                                self.matriz_decisao.val[c][r] = Zero) =>
        /\ fase = "falhou"
        /\ erro # SemErro
        /\ self.atribuidos \cap {"preferencia_local", "fator_gaussiano", "peso"} = {}

Retornou == chamada.op = "preferencia_global" /\ erro = SemErro

Classificacao(t) == [k \in 1..Len(t) |-> t[k].Ranking]

\* the position of an alternative in the rows of the Decision Table
LinhaDe(df, a) == Pos(df.index, a)

\* the Result Table holds every alternative once, ranked 1..N, Score not increasing
ResultadoOrdenado(df, t) ==
    /\ Len(t) = Shape0(df)
    /\ \A a \in Range(df.index) : Cardinality({k \in 1..Len(t) : t[k].alternativa = a}) = 1
    /\ \A k \in 1..Len(t) : t[k].Ranking = k
    /\ \A k \in 1..(Len(t) - 1) : RLeq(t[k + 1].Pontuacao, t[k].Pontuacao)

\* alternatives of equal Score are ranked in the row order of the Decision Table
EmpatesNaOrdemOriginal(df, t) ==
    \A j, k \in 1..Len(t) :
        (j < k /\ t[j].Pontuacao = t[k].Pontuacao) =>
            LinhaDe(df, t[j].alternativa) < LinhaDe(df, t[k].alternativa)

PesosValidos == \A c \in 1..Len(self.peso) : NaoNegativo(self.peso[c])

Exemplo ==
    [index |-> Alternativas,
     columns |-> CriteriosDecisao,
     val |-> <<<<Num(3), Num(2), Num(1)>>, <<Num(1), Num(2), Num(3)>>>>]

NoExemplo ==
    /\ Retornou
    /\ self.matriz_decisao = Exemplo
    /\ self.objetivo = List(<<"C2">>)

RankingDe(t, a) == t[CHOOSE k \in 1..Len(t) : t[k].alternativa = a].Ranking

\* the Result Tables of the example under equal weights (1/2, 1/2)
ResultadoPesosIguais ==
    resultado(Exemplo, List(<<"C2">>), Series(CriteriosDecisao, <<Frac(1, 2), Frac(1, 2)>>)).rets

\* C9 as stated: on the example, the Rank preferencia_global gives A1 differs
\* from the Rank of A1 under a naive equal-weight sum of the two criteria.
C9_RankingDifere ==
    NoExemplo =>
        \A t \in ResultadoPesosIguais : RankingDe(chamada.ret, "A1") # RankingDe(t, "A1")

\* C9 as amended: on the example, preferencia_global ranks A1 first, the same
\* Rank A1 has under an equal-weight sum of the two criteria.
C9_RankingIgual ==
    NoExemplo =>
        /\ RankingDe(chamada.ret, "A1") = 1
        /\ \A t \in ResultadoPesosIguais : RankingDe(t, "A1") = 1

C9_Witness ==
    /\ NoExemplo
    /\ self.peso[1] # self.peso[2]
    /\ Classificacao(chamada.ret) = <<1, 2, 3>>
    /\ chamada.ret[1].alternativa = "A1"

----------------------------------------------------------------------------
(* Properties of AHPSaaty, under SpecSaaty *)

Quadrada(m) == Shape0(m) = Shape1(m) /\ m.index = m.columns

NaEscala(m) == \A x \in Celulas(m) : RLeq(EscalaMin, x) /\ RLeq(x, EscalaMax)

\* M[i][j] = w[i] / w[j] for some positive w: M[i][k] = M[i][j] * M[j][k] throughout
PerfeitamenteConsistente(m) ==
    /\ Quadrada(m)
    /\ NaEscala(m)
    /\ \A i, j, k \in 1..Shape1(m) : m.val[k][i] = RMul(m.val[j][i], m.val[k][j])

ObjetivoValido(m, o) == check_objetivo(m, o).erro = SemErro

\* C3: for every perfectly consistent Judgment Matrix of 1 to 15 criteria the
\* construction of AHPSaaty succeeds and the Consistency Ratio cr is 0.
C3_ConsistenteCRZero ==
    (/\ fase # "inicio"
     /\ PerfeitamenteConsistente(self.matriz_julgamentos)
     /\ Shape1(self.matriz_julgamentos) <= Len(indice_consistencia)
     /\ ObjetivoValido(self.matriz_julgamentos, self.objetivo)) =>
        /\ erro = SemErro
        /\ self.cr = Zero

\* some pair of labels has M[i][j] # 1 / M[j][i]
TemParNaoReciproco(m) ==
    \E i \in Range(m.index) \cap Range(m.columns) :
        \E j \in Range(m.index) \cap Range(m.columns) :
            loc(m, i, j) # RDiv(One, loc(m, j, i))

ErroReciproca(e) ==
    /\ e.tipo = "InterruptedError"
    /\ e.motivo = "erro na reciproca da matriz de julgamento"

\* C5 as stated: constructing AHPSaaty with a matrix in which some pair has
\* M[i][j] # 1/M[j][i] always fails with the reciprocity error naming the pair,
\* whatever else is true of the matrix.
C5_SempreReciproca ==
    (fase # "inicio" /\ TemParNaoReciproco(self.matriz_julgamentos)) =>
        /\ ErroReciproca(erro)
        /\ Len(erro.par) = 2

\* C5 as amended: constructing AHPSaaty with such a matrix always fails; the
\* error is the reciprocity error, naming the first offending pair in row-major
\* order, when the matrix passes the three checks made before it (entries in
\* [1/9, 9], square, row labels equal to column labels), and otherwise the error
\* of the first of those checks that fails.
C5_ReciprocaAposOsOutros ==
    (fase # "inicio" /\ TemParNaoReciproco(self.matriz_julgamentos)) =>
        LET m == self.matriz_julgamentos
        IN /\ fase = "falhou"
           /\ erro.tipo = "InterruptedError"
           /\ ~NaEscala(m) =>
                 erro.motivo = "matriz de julgamentos viola escala fundamental de Saaty"
           /\ (NaEscala(m) /\ Shape0(m) # Shape1(m)) =>
                 erro.motivo = "matriz de julgamento deve ser uma matriz quadrada"
           /\ (NaEscala(m) /\ Shape0(m) = Shape1(m) /\ m.index # m.columns) =>
                 erro.motivo =
                   "coluna e indices da matriz de julgamentos devem estar ordenados igualmente"
           /\ (NaEscala(m) /\ Quadrada(m)) =>
                 /\ ErroReciproca(erro)
                 /\ Len(erro.par) = 2
                 /\ loc(m, erro.par[1], erro.par[2]) # RDiv(One, loc(m, erro.par[2], erro.par[1]))
                 /\ \A i, j \in 1..Shape1(m) :
                       (i < Pos(m.index, erro.par[1])
                          \/ (i = Pos(m.index, erro.par[1]) /\ j < Pos(m.columns, erro.par[2]))) =>
                       m.val[j][i] = RDiv(One, m.val[i][j])

C5_Witness ==
    /\ fase = "falhou"
    /\ NaEscala(self.matriz_julgamentos)
    /\ Shape1(self.matriz_julgamentos) = 3
    /\ ErroReciproca(erro)
    /\ erro.par = <<"C2", "C3">>

\* C6: constructing AHPSaaty from an otherwise valid Judgment Matrix of more
\* than 15 criteria fails in the validation step, before the normalized matrix,
\* the weights or lambda_max are computed.
C6_MuitosCriteriosNaValidacao ==
    (/\ fase # "inicio"
     /\ Shape1(self.matriz_julgamentos) > Len(indice_consistencia)
     /\ NaEscala(self.matriz_julgamentos)
     /\ Quadrada(self.matriz_julgamentos)
     /\ ~TemParNaoReciproco(self.matriz_julgamentos)
     /\ ObjetivoValido(self.matriz_julgamentos, self.objetivo)) =>
        /\ fase = "falhou"
        /\ erro.tipo = "InterruptedError"
        /\ self.atribuidos \cap {"_julgamentos_normalizados", "peso", "_maxlambda"} = {}

\* the Decision Table is not one the instance accepts
TabelaRecusada(obj, md) ==
    \/ md.columns # obj.matriz_julgamentos.columns
    \/ Shape1(md) > Len(indice_consistencia)

ErroMuitosCriterios(e) ==
    /\ e.tipo = "InterruptedError"
    /\ e.motivo = "matriz de decisao deve conter no maximo 15 criterios de avaliacao"

\* the call raised one of the errors of _check_matriz_decisao and returned nothing
RejeitadaNaValidacao ==
    /\ erro # SemErro
    /\ erro = check_matriz_decisao(self, chamada.arg)
    /\ chamada.ret = Unset
    /\ Shape1(chamada.arg) > Len(indice_consistencia) => ErroMuitosCriterios(erro)

PontuacaoEsperada(obj, md, r) ==
    LET p == normalizar_decisao(md, obj.objetivo).ret
    IN Soma([c \in 1..Shape1(md) |-> RMul(obj.peso[c], p.val[c][r])])

====
